---- MODULE Spec2Model ----
(***************************************************************************)
(* A model of oxidize-postal, the binding layer between a host runtime and *)
(* the native libpostal address parser.                                    *)
(*                                                                         *)
(* Strings that the code inspects or builds character by character (the    *)
(* address, component labels and values, expansions, JSON text, the        *)
(* normalized address) are sequences of one-character strings.  Diagnostic *)
(* texts (error messages, captured stderr) are tuples of opaque pieces: a  *)
(* format!() call becomes the tuple of its literal pieces and arguments.   *)
(***************************************************************************)
EXTENDS Integers, Sequences, FiniteSets, TLC

VARIABLES
    address,    \* the address string given to the operation under way
    natParse,   \* what libpostal's parse_address answers for `address`
    natExpand,  \* what libpostal's expand_address answers for `address`
    op,         \* the public operation that ran last ("none" before any)
    force,      \* the force flag given to the last download_data call
    result,     \* what that operation handed back to the host (a PyResult)
    native,     \* the native routines that operation invoked, in order
    cmd,        \* the arguments handed to the subprocess by download_data
    proc,       \* how that subprocess ended
    gil,        \* the thread holding the host's exclusive lock, or NoThread
    pc,         \* per host thread: where it is inside its call
    tOp,        \* per host thread: the operation it is calling
    tAddr,      \* per host thread: the address it passed
    tLocal,     \* per host thread: the value its closure returned
    tRes        \* per host thread: what its call returned to the host

seqVars == << address, natParse, natExpand, op, force, result, native, cmd, proc >>
thrVars == << gil, pc, tOp, tAddr, tLocal, tRes >>
vars == << address, natParse, natExpand, op, force, result, native, cmd, proc,
           gil, pc, tOp, tAddr, tLocal, tRes >>

---------------------------------------------------------------------------
(* Bounds of the model.                                                    *)

MaxAddrLen == 2

MaxComponents == 2

MaxExpansions == 2

---------------------------------------------------------------------------
(* constants.rs: the component-type labels.                                *)

COMPONENT_HOUSE_NUMBER ==
    << "h", "o", "u", "s", "e", "_", "n", "u", "m", "b", "e", "r" >>

COMPONENT_ROAD ==
    << "r", "o", "a", "d" >>

COMPONENT_UNIT ==
    << "u", "n", "i", "t" >>

COMPONENT_LEVEL ==
    << "l", "e", "v", "e", "l" >>

COMPONENT_STAIRCASE ==
    << "s", "t", "a", "i", "r", "c", "a", "s", "e" >>

COMPONENT_ENTRANCE ==
    << "e", "n", "t", "r", "a", "n", "c", "e" >>

COMPONENT_PO_BOX ==
    << "p", "o", "_", "b", "o", "x" >>

COMPONENT_POSTCODE ==
    << "p", "o", "s", "t", "c", "o", "d", "e" >>

COMPONENT_SUBURB ==
    << "s", "u", "b", "u", "r", "b" >>

COMPONENT_CITY_DISTRICT ==
    << "c", "i", "t", "y", "_", "d", "i", "s", "t", "r", "i", "c", "t" >>

COMPONENT_CITY ==
    << "c", "i", "t", "y" >>

COMPONENT_ISLAND ==
    << "i", "s", "l", "a", "n", "d" >>

COMPONENT_STATE_DISTRICT ==
    << "s", "t", "a", "t", "e", "_", "d", "i", "s", "t", "r", "i", "c", "t" >>

COMPONENT_STATE ==
    << "s", "t", "a", "t", "e" >>

COMPONENT_COUNTRY_REGION ==
    << "c", "o", "u", "n", "t", "r", "y", "_", "r", "e", "g", "i", "o", "n" >>

COMPONENT_COUNTRY ==
    << "c", "o", "u", "n", "t", "r", "y" >>

COMPONENT_WORLD_REGION ==
    << "w", "o", "r", "l", "d", "_", "r", "e", "g", "i", "o", "n" >>

COMPONENT_CATEGORY ==
    << "c", "a", "t", "e", "g", "o", "r", "y" >>

COMPONENT_NEAR ==
    << "n", "e", "a", "r" >>

COMPONENT_TOPONYM ==
    << "t", "o", "p", "o", "n", "y", "m" >>

get_all_component_types ==
    << COMPONENT_HOUSE_NUMBER, COMPONENT_ROAD, COMPONENT_UNIT, COMPONENT_LEVEL,
       COMPONENT_STAIRCASE, COMPONENT_ENTRANCE, COMPONENT_PO_BOX,
       COMPONENT_POSTCODE, COMPONENT_SUBURB, COMPONENT_CITY_DISTRICT,
       COMPONENT_CITY, COMPONENT_ISLAND, COMPONENT_STATE_DISTRICT,
       COMPONENT_STATE, COMPONENT_COUNTRY_REGION, COMPONENT_COUNTRY,
       COMPONENT_WORLD_REGION, COMPONENT_CATEGORY, COMPONENT_NEAR,
       COMPONENT_TOPONYM >>

is_valid_component_type(component_type) ==
    \E i \in 1..Len(get_all_component_types) :
        get_all_component_types[i] = component_type

---------------------------------------------------------------------------
(* Results and errors (error.rs).                                          *)

Ok(v) == [ok |-> TRUE, val |-> v]

Err(e) == [ok |-> FALSE, err |-> e]

InvalidInput(message, context) ==
    [kind |-> "InvalidInput", message |-> message, context |-> context]

LibpostalError(message) == [kind |-> "LibpostalError", message |-> message]

SerializationError(message) ==
    [kind |-> "SerializationError", message |-> message]

ConfigurationError(message) ==
    [kind |-> "ConfigurationError", message |-> message]

\* impl Display for PostalError
Display(err) ==
    CASE err.kind = "InvalidInput" ->
           << "Invalid input: " >> \o err.message \o << ". Context: " >>
             \o err.context
             \o << ". Please ensure the input is a valid, non-empty string." >>
      [] err.kind = "LibpostalError" ->
           << "Libpostal processing error: " >> \o err.message
             \o << ". This may indicate missing data files or an internal parsing issue." >>
      [] err.kind = "SerializationError" ->
           << "JSON serialization error: " >> \o err.message
             \o << ". The parsed data could not be converted to JSON format." >>
      [] err.kind = "ConfigurationError" ->
           << "Configuration error: " >> \o err.message
             \o << ". Please check your libpostal installation and data files." >>

\* A mutant of PyErr_from: every kind becomes a runtime error.
PyErr_from_AllRuntime(err) == [type |-> "RuntimeError", text |-> Display(err)]

\* impl From<PostalError> for PyErr
PyErr_from(err) ==
    CASE err.kind = "InvalidInput" ->
           [type |-> "ValueError", text |-> Display(err)]
      [] err.kind = "LibpostalError" ->
           [type |-> "RuntimeError", text |-> Display(err)]
      [] err.kind = "SerializationError" ->
           [type |-> "RuntimeError", text |-> Display(err)]
      [] err.kind = "ConfigurationError" ->
           [type |-> "RuntimeError", text |-> Display(err)]

\* .map_err(PyErr::from)
map_err_PyErr(r) == IF r.ok THEN r ELSE Err(PyErr_from(r.err))

---------------------------------------------------------------------------
(* parser.rs: validation and the native calls.                             *)

\* char::is_whitespace, restricted to the characters the model uses
WhiteSpace == { " ", "\t", "\n", "\r" }

RECURSIVE trim_start(_)
trim_start(s) ==
    IF s = << >> THEN s
    ELSE IF Head(s) \in WhiteSpace THEN trim_start(Tail(s)) ELSE s

RECURSIVE trim_end(_)
trim_end(s) ==
    IF s = << >> THEN s
    ELSE IF s[Len(s)] \in WhiteSpace THEN trim_end(SubSeq(s, 1, Len(s) - 1))
    ELSE s

trim(s) == trim_end(trim_start(s))

is_empty(s) == Len(s) = 0

\* A mutant of fails_validation: the address is tested without trimming.
fails_validation_NoTrim(addr) == is_empty(addr)

\* address.trim().is_empty()
fails_validation(addr) == is_empty(trim(addr))

\* parse_address_with_options: `nat` is libpostal's answer for `addr`, used
\* only when the call is made.  res is the Result, native the calls made.
parse_address_with_options(addr, nat) ==
    IF fails_validation(addr)
    THEN [res |-> Err(InvalidInput(
                    << "Address string is empty or contains only whitespace" >>,
                    << "Valid address parsing requires a non-empty string with actual address content" >>)),
          native |-> << >>]
    ELSE [res |-> IF nat.ok THEN Ok(nat.val)
                  ELSE Err(LibpostalError(<< "Failed to parse address: ", nat.err >>)),
          native |-> << "parse_address" >>]

parse_address_string(addr, nat) == parse_address_with_options(addr, nat)

expand_address_string(addr, nat) ==
    IF fails_validation(addr)
    THEN [res |-> Err(InvalidInput(
                    << "Address string is empty or contains only whitespace" >>,
                    << "Address expansion requires a valid address string to process abbreviations" >>)),
          native |-> << >>]
    ELSE [res |-> IF nat.ok THEN Ok(nat.val)
                  ELSE Err(LibpostalError(<< "Failed to expand address: ", nat.err >>)),
          native |-> << "expand_address" >>]

---------------------------------------------------------------------------
(* python_api.rs: serialization.                                           *)

RECURSIVE concat(_)
concat(pieces) ==
    IF pieces = << >> THEN << >> ELSE Head(pieces) \o concat(Tail(pieces))

\* slice::join
RECURSIVE join(_, _)
join(parts, sep) ==
    IF parts = << >> THEN << >>
    ELSE IF Len(parts) = 1 THEN parts[1]
    ELSE parts[1] \o sep \o join(Tail(parts), sep)

\* A mutant of escape_char: characters are written as they are.
escape_char_Raw(c) == << c >>

\* serde_json's escaping of one character of a string
escape_char(c) ==
    CASE c = "\"" -> << "\\", "\"" >>
      [] c = "\\" -> << "\\", "\\" >>
      [] c = "\t" -> << "\\", "t" >>
      [] c = "\n" -> << "\\", "n" >>
      [] c = "\r" -> << "\\", "r" >>
      [] OTHER -> << c >>

format_escaped_str(s) ==
    << "\"" >> \o concat([i \in 1..Len(s) |-> escape_char(s[i])]) \o << "\"" >>

\* serde_json::to_string(&HashMap<String, String>); `order` is the order in
\* which the hash map yields its keys.  It cannot fail for string keys and
\* string values.
serde_json_to_string_map(m, order) ==
    Ok(<< "{" >>
       \o join([i \in 1..Len(order) |->
                  format_escaped_str(order[i]) \o << ":" >>
                    \o format_escaped_str(m[order[i]])], << "," >>)
       \o << "}" >>)

\* serde_json::to_string(&Vec<String>)
serde_json_to_string_vec(v) ==
    Ok(<< "[" >>
       \o join([i \in 1..Len(v) |-> format_escaped_str(v[i])], << "," >>)
       \o << "]" >>)

\* to_json: the map_err around serde_json::to_string
to_json(serialized) ==
    IF serialized.ok THEN serialized
    ELSE Err(SerializationError(
               << "Failed to serialize to JSON: ", serialized.err >>))

\* the orders in which a hash map with key set S can yield its keys
RECURSIVE IterationOrders(_)
IterationOrders(S) ==
    IF S = { } THEN { << >> }
    ELSE UNION { { << k >> \o o : o \in IterationOrders(S \ { k }) } : k \in S }

---------------------------------------------------------------------------
(* python_api.rs: the public operations.  Each takes the Result of the     *)
(* closure it ran under allow_threads and gives the PyResult it returns.   *)

parse_address(closure) == map_err_PyErr(closure)

parse_address_to_json(closure, order) ==
    LET parsed == map_err_PyErr(closure)
    IN  IF ~parsed.ok THEN parsed
        ELSE map_err_PyErr(to_json(serde_json_to_string_map(parsed.val, order)))

expand_address(closure) == map_err_PyErr(closure)

expand_address_to_json(closure) ==
    LET expanded == map_err_PyErr(closure)
    IN  IF ~expanded.ok THEN expanded
        ELSE map_err_PyErr(to_json(serde_json_to_string_vec(expanded.val)))

LowerCase == << "a", "b", "c", "d", "e", "f", "g", "h", "i", "j", "k", "l", "m",
                "n", "o", "p", "q", "r", "s", "t", "u", "v", "w", "x", "y", "z" >>

UpperCase == << "A", "B", "C", "D", "E", "F", "G", "H", "I", "J", "K", "L", "M",
                "N", "O", "P", "Q", "R", "S", "T", "U", "V", "W", "X", "Y", "Z" >>

\* A mutant of to_uppercase: the string is left as it is.
to_uppercase_Unchanged(s) == s

\* str::to_uppercase, on ASCII
to_uppercase(s) ==
    [i \in 1..Len(s) |->
        IF \E k \in 1..Len(LowerCase) : LowerCase[k] = s[i]
        THEN UpperCase[CHOOSE k \in 1..Len(LowerCase) : LowerCase[k] = s[i]]
        ELSE s[i]]

\* A mutant of no_components_error: the failure is reported as invalid input.
no_components_error_Invalid ==
    InvalidInput(<< "Failed to parse any recognizable address components from the input. The address may be malformed or in an unsupported format" >>,
                 << >>)

\* the error normalize_address builds when it collected no part
no_components_error ==
    LibpostalError(<< "Failed to parse any recognizable address components from the input. The address may be malformed or in an unsupported format" >>)

\* the Vec normalize_address collects from the parse result
normalized_parts(parsed) ==
    LET p1 == IF COMPONENT_HOUSE_NUMBER \in DOMAIN parsed
              THEN Append(<< >>, parsed[COMPONENT_HOUSE_NUMBER]) ELSE << >>
        p2 == IF COMPONENT_ROAD \in DOMAIN parsed
              THEN Append(p1, parsed[COMPONENT_ROAD]) ELSE p1
        p3 == IF COMPONENT_UNIT \in DOMAIN parsed
              THEN Append(p2, << "U", "n", "i", "t", " " >> \o parsed[COMPONENT_UNIT])
              ELSE p2
        p4 == IF COMPONENT_CITY \in DOMAIN parsed
              THEN Append(p3, parsed[COMPONENT_CITY]) ELSE p3
        p5 == IF COMPONENT_STATE \in DOMAIN parsed
              THEN Append(p4, to_uppercase(parsed[COMPONENT_STATE])) ELSE p4
        p6 == IF COMPONENT_POSTCODE \in DOMAIN parsed
              THEN Append(p5, parsed[COMPONENT_POSTCODE]) ELSE p5
        p7 == IF COMPONENT_COUNTRY \in DOMAIN parsed
              THEN Append(p6, to_uppercase(parsed[COMPONENT_COUNTRY])) ELSE p6
    IN  p7

normalize_address(closure) ==
    LET parsed == map_err_PyErr(closure)
    IN  IF ~parsed.ok THEN parsed
        ELSE IF is_empty(normalized_parts(parsed.val))
             THEN Err(PyErr_from(no_components_error))
             ELSE Ok(join(normalized_parts(parsed.val), << ",", " " >>))

\* the arguments download_data gives the python subprocess
download_command(f) ==
    << "-c",
       << "import sys; sys.path.insert(0, '.'); from data_manager import download_data; download_data(",
          IF f THEN "True" ELSE "False",
          ")" >> >>

\* download_data, given how cmd.output() ended
download_data(f, output) ==
    IF output.launched
    THEN IF output.success
         THEN Ok(TRUE)
         ELSE Err(PyErr_from(ConfigurationError(
                << "Data download failed: ", output.stderr,
                   ". Please check your internet connection and ensure you have write permissions to /usr/local/share/libpostal" >>)))
    ELSE Err(PyErr_from(ConfigurationError(
                << "Failed to run data download script: ", output.error,
                   ". Ensure Python is installed and the data_manager.py script is accessible" >>)))

---------------------------------------------------------------------------
(* The environment: the addresses the host passes, libpostal's answers and *)
(* the outcomes of the download subprocess.                                *)

InputChars == { " ", "\t", "a" }

RECURSIVE SeqsUpTo(_, _)
SeqsUpTo(S, n) ==
    IF n = 0 THEN { << >> }
    ELSE SeqsUpTo(S, n - 1)
           \cup { Append(s, x) : s \in { t \in SeqsUpTo(S, n - 1) : Len(t) = n - 1 },
                                 x \in S }

Addresses == SeqsUpTo(InputChars, MaxAddrLen)

\* libpostal labels a venue name "house"
NATIVE_LABEL_HOUSE == << "h", "o", "u", "s", "e" >>

\* the labels libpostal's parser attaches in the model
NativeLabels ==
    { COMPONENT_HOUSE_NUMBER, COMPONENT_ROAD, COMPONENT_UNIT, COMPONENT_CITY,
      COMPONENT_STATE, COMPONENT_POSTCODE, COMPONENT_COUNTRY,
      COMPONENT_SUBURB, NATIVE_LABEL_HOUSE }

\* component values: the empty string, and one with a lower-case letter and
\* the two characters JSON text must escape
ComponentValues == { << >>, << "a", "\"", "\\" >> }

\* the parse of spec section 8: {house_number: "123", road: "main st"}
ExampleParse ==
    (COMPONENT_HOUSE_NUMBER :> << "1", "2", "3" >>)
      @@ (COMPONENT_ROAD :> << "m", "a", "i", "n", " ", "s", "t" >>)

NativeMaps ==
    UNION { [S -> ComponentValues] :
              S \in { T \in SUBSET NativeLabels : Cardinality(T) <= MaxComponents } }
      \cup { ExampleParse }

NativeErrors == { "could not load libpostal data" }

ParseAnswers == { Ok(m) : m \in NativeMaps } \cup { Err(e) : e \in NativeErrors }

ExpansionValues == { << "a" >>, << "\"", "b" >> }

ExpandAnswers ==
    { Ok(v) : v \in SeqsUpTo(ExpansionValues, MaxExpansions) }
      \cup { Err(e) : e \in NativeErrors }

\* the answers used while the other routine's answer varies
DefaultParse == Ok(ExampleParse)

DefaultExpand == Ok(<< << "a" >> >>)

SubprocessOutputs ==
    { [launched |-> FALSE, error |-> "No such file or directory (os error 2)"],
      [launched |-> TRUE, success |-> TRUE, stderr |-> ""],
      [launched |-> TRUE, success |-> FALSE, stderr |-> "Traceback: download failed"] }

NoResult == [pending |-> TRUE]

NoOutput == [pending |-> TRUE]

Threads == { "t1", "t2" }

NoThread == "none"

---------------------------------------------------------------------------
(* One host thread calling the public operations, one call after another,  *)
(* on an address and native answers drawn at the start.  No operation      *)
(* consults both native routines, so their answers vary one at a time;     *)
(* an address that fails validation reaches neither.                       *)

ThreadsIdle ==
    /\ gil = NoThread
    /\ pc = [t \in Threads |-> "idle"]
    /\ tOp = [t \in Threads |-> "none"]
    /\ tAddr = [t \in Threads |-> << >>]
    /\ tLocal = [t \in Threads |-> NoResult]
    /\ tRes = [t \in Threads |-> NoResult]

Init ==
    /\ address \in Addresses
    /\ natParse \in ParseAnswers
    /\ natExpand \in ExpandAnswers
    /\ natParse = DefaultParse \/ natExpand = DefaultExpand
    /\ fails_validation(address) => natParse = DefaultParse /\ natExpand = DefaultExpand
    /\ op = "none"
    /\ force = FALSE
    /\ result = NoResult
    /\ native = << >>
    /\ cmd = << >>
    /\ proc = NoOutput
    /\ ThreadsIdle

Returns(r, calls) ==
    /\ result' = r
    /\ native' = calls
    /\ force' = FALSE
    /\ cmd' = << >>
    /\ proc' = NoOutput
    /\ UNCHANGED << address, natParse, natExpand >>
    /\ UNCHANGED thrVars

ParseAddress ==
    /\ op' = "parse_address"
    /\ LET c == parse_address_with_options(address, natParse)
       IN  Returns(parse_address(c.res), c.native)

ParseAddressToJson ==
    /\ op' = "parse_address_to_json"
    /\ LET c == parse_address_string(address, natParse)
       IN  \E order \in IterationOrders(IF c.res.ok THEN DOMAIN c.res.val ELSE { }) :
               Returns(parse_address_to_json(c.res, order), c.native)

ExpandAddress ==
    /\ op' = "expand_address"
    /\ LET c == expand_address_string(address, natExpand)
       IN  Returns(expand_address(c.res), c.native)

ExpandAddressToJson ==
    /\ op' = "expand_address_to_json"
    /\ LET c == expand_address_string(address, natExpand)
       IN  Returns(expand_address_to_json(c.res), c.native)

NormalizeAddress ==
    /\ op' = "normalize_address"
    /\ LET c == parse_address_string(address, natParse)
       IN  Returns(normalize_address(c.res), c.native)

DownloadData ==
    \E f \in BOOLEAN, output \in SubprocessOutputs :
        /\ op' = "download_data"
        /\ force' = f
        /\ cmd' = download_command(f)
        /\ proc' = output
        /\ result' = download_data(f, output)
        /\ native' = << >>
        /\ UNCHANGED << address, natParse, natExpand >>
        /\ UNCHANGED thrVars

Next ==
    \/ ParseAddress
    \/ ParseAddressToJson
    \/ ExpandAddress
    \/ ExpandAddressToJson
    \/ NormalizeAddress
    \/ DownloadData

Spec == Init /\ [][Next]_vars

---------------------------------------------------------------------------
(* Several host threads calling parse and expand at once.  A host thread   *)
(* runs host code only while it holds the exclusive lock; allow_threads    *)
(* gives the lock up, runs the closure and takes the lock back.            *)

ThreadAddresses == { << "\t" >>, << "a" >>, << "a", "a" >>, << "a", " " >> }

\* libpostal as a thread-safe function of its argument (spec section 5)
libpostal_parse_address ==
    (<< "\t" >> :> Ok((COMPONENT_ROAD :> << >>)))
      @@ (<< "a" >> :> Ok((COMPONENT_ROAD :> << "a" >>)))
      @@ (<< "a", "a" >> :> Ok((NATIVE_LABEL_HOUSE :> << "a", "a" >>)))
      @@ (<< "a", " " >> :> Err("could not load libpostal data"))

libpostal_expand_address ==
    (<< "\t" >> :> Ok(<< >>))
      @@ (<< "a" >> :> Ok(<< << "a" >> >>))
      @@ (<< "a", "a" >> :> Ok(<< << "a", "a" >>, << "a" >> >>))
      @@ (<< "a", " " >> :> Err("could not load libpostal data"))

ThreadOps ==
    { "parse_address", "parse_address_to_json", "expand_address",
      "expand_address_to_json", "normalize_address" }

\* the closure each operation passes to allow_threads
Closure(o, addr) ==
    CASE o = "parse_address" ->
           parse_address_with_options(addr, libpostal_parse_address[addr])
      [] o \in { "parse_address_to_json", "normalize_address" } ->
           parse_address_string(addr, libpostal_parse_address[addr])
      [] o \in { "expand_address", "expand_address_to_json" } ->
           expand_address_string(addr, libpostal_expand_address[addr])

\* what the operation returns once the closure's value is back
AfterClosure(o, closure, order) ==
    CASE o = "parse_address" -> parse_address(closure)
      [] o = "parse_address_to_json" -> parse_address_to_json(closure, order)
      [] o = "expand_address" -> expand_address(closure)
      [] o = "expand_address_to_json" -> expand_address_to_json(closure)
      [] o = "normalize_address" -> normalize_address(closure)

\* A mutant of allow_threads_release: the lock is kept across the closure.
allow_threads_release_Kept(g, t) == g

\* allow_threads gives up the lock the calling thread holds
allow_threads_release(g, t) == IF g = t THEN NoThread ELSE g

\* A mutant of closure_value: the value lands in one slot shared by all threads.
closure_value_Shared(loc, t, r) == [u \in Threads |-> r]

\* the closure's value is a local of the calling thread
closure_value(loc, t, r) == [loc EXCEPT ![t] = r]

InitThreads ==
    /\ address = << >>
    /\ natParse = DefaultParse
    /\ natExpand = DefaultExpand
    /\ op = "none"
    /\ force = FALSE
    /\ result = NoResult
    /\ native = << >>
    /\ cmd = << >>
    /\ proc = NoOutput
    /\ ThreadsIdle

\* the host thread takes the lock and enters the operation
Call(t) ==
    /\ pc[t] = "idle"
    /\ gil = NoThread
    /\ \E o \in ThreadOps, a \in ThreadAddresses :
          /\ tOp' = [tOp EXCEPT ![t] = o]
          /\ tAddr' = [tAddr EXCEPT ![t] = a]
    /\ gil' = t
    /\ pc' = [pc EXCEPT ![t] = "entered"]
    /\ tLocal' = [tLocal EXCEPT ![t] = NoResult]
    /\ tRes' = [tRes EXCEPT ![t] = NoResult]
    /\ UNCHANGED seqVars

\* allow_threads starts: the lock is released
AllowThreadsBegin(t) ==
    /\ pc[t] = "entered"
    /\ gil' = allow_threads_release(gil, t)
    /\ pc' = [pc EXCEPT ![t] = "closure"]
    /\ UNCHANGED << tOp, tAddr, tLocal, tRes >>
    /\ UNCHANGED seqVars

\* the closure validates the address; it returns at once when that fails,
\* and enters the native routine otherwise
ClosureValidate(t) ==
    /\ pc[t] = "closure"
    /\ IF Closure(tOp[t], tAddr[t]).native = << >>
       THEN /\ tLocal' = closure_value(tLocal, t, Closure(tOp[t], tAddr[t]).res)
            /\ pc' = [pc EXCEPT ![t] = "reacquire"]
       ELSE /\ tLocal' = tLocal
            /\ pc' = [pc EXCEPT ![t] = "native"]
    /\ UNCHANGED << gil, tOp, tAddr, tRes >>
    /\ UNCHANGED seqVars

\* the native routine returns and the closure wraps its answer
NativeReturn(t) ==
    /\ pc[t] = "native"
    /\ tLocal' = closure_value(tLocal, t, Closure(tOp[t], tAddr[t]).res)
    /\ pc' = [pc EXCEPT ![t] = "reacquire"]
    /\ UNCHANGED << gil, tOp, tAddr, tRes >>
    /\ UNCHANGED seqVars

\* allow_threads ends: the thread waits for the lock and takes it
AllowThreadsEnd(t) ==
    /\ pc[t] = "reacquire"
    /\ gil = NoThread
    /\ gil' = t
    /\ pc' = [pc EXCEPT ![t] = "tail"]
    /\ UNCHANGED << tOp, tAddr, tLocal, tRes >>
    /\ UNCHANGED seqVars

\* the rest of the operation runs under the lock and the call returns; the
\* host thread, done with the call, lets the lock go
Return(t) ==
    /\ pc[t] = "tail"
    /\ \E order \in IterationOrders(
                      IF tOp[t] = "parse_address_to_json" /\ tLocal[t].ok
                      THEN DOMAIN tLocal[t].val ELSE { }) :
          tRes' = [tRes EXCEPT ![t] = AfterClosure(tOp[t], tLocal[t], order)]
    /\ gil' = NoThread
    /\ pc' = [pc EXCEPT ![t] = "done"]
    /\ UNCHANGED << tOp, tAddr, tLocal >>
    /\ UNCHANGED seqVars

\* the host thread drops the returned value and is ready to call again
Forget(t) ==
    /\ pc[t] = "done"
    /\ pc' = [pc EXCEPT ![t] = "idle"]
    /\ tOp' = [tOp EXCEPT ![t] = "none"]
    /\ tAddr' = [tAddr EXCEPT ![t] = << >>]
    /\ tLocal' = [tLocal EXCEPT ![t] = NoResult]
    /\ tRes' = [tRes EXCEPT ![t] = NoResult]
    /\ UNCHANGED gil
    /\ UNCHANGED seqVars

ThreadStep(t) ==
    \/ Call(t)
    \/ AllowThreadsBegin(t)
    \/ ClosureValidate(t)
    \/ NativeReturn(t)
    \/ AllowThreadsEnd(t)
    \/ Return(t)
    \/ Forget(t)

NextThreads == \E t \in Threads : ThreadStep(t)

SpecThreads == InitThreads /\ [][NextThreads]_vars

---------------------------------------------------------------------------
(* What the properties below read off a state.                             *)

\* the address is empty or holds white space only
Blank(a) == \A i \in 1..Len(a) : a[i] \in WhiteSpace

ParseOps == { "parse_address", "parse_address_to_json", "normalize_address" }

ExpandOps == { "expand_address", "expand_address_to_json" }

\* the host sees the error kind through the exception type and the opening
\* of its text
Raised(r, type, opening) ==
    /\ ~r.ok
    /\ r.err.type = type
    /\ r.err.text[1] = opening

RaisedInvalidInput(r) == Raised(r, "ValueError", "Invalid input: ")

RaisedLibpostalError(r) == Raised(r, "RuntimeError", "Libpostal processing error: ")

RaisedSerializationError(r) == Raised(r, "RuntimeError", "JSON serialization error: ")

RaisedConfigurationError(r) == Raised(r, "RuntimeError", "Configuration error: ")

\* a piece occurs in a diagnostic text
Mentions(text, piece) == \E i \in 1..Len(text) : text[i] = piece

---------------------------------------------------------------------------
\* C1: an empty or white-space-only address makes parse and expand fail with
\* InvalidInput without any native call; any other address reaches the
\* native routine exactly once and never fails with InvalidInput.
C1_ValidationBeforeNative ==
    op \in ParseOps \cup ExpandOps =>
        IF Blank(address)
        THEN RaisedInvalidInput(result) /\ native = << >>
        ELSE /\ native = << IF op \in ParseOps THEN "parse_address"
                            ELSE "expand_address" >>
             /\ ~RaisedInvalidInput(result)

C1_Witness ==
    /\ op = "expand_address"
    /\ address = << " ", "\t" >>
    /\ RaisedInvalidInput(result)
    /\ native = << >>

---------------------------------------------------------------------------
\* C2: no thread holds the host lock while it is inside the closure or the
\* native call, in any of the five operations, and every other thread has
\* a step it can take while one is inside the native call.
C2_LockReleasedInNative ==
    \A t \in Threads :
        /\ pc[t] \in { "closure", "native" } => gil # t
        /\ pc[t] = "native" =>
              \A u \in Threads \ { t } : ENABLED ThreadStep(u)

\* one thread is inside the native call while another runs under the lock
C2_Witness ==
    \E t, u \in Threads :
        /\ t # u
        /\ pc[t] = "native"
        /\ pc[u] = "tail"
        /\ gil = u

---------------------------------------------------------------------------
\* C3: a caller of parse gets the result of its own address, the one it
\* would get running alone, whatever the other callers do meanwhile.
C3_OwnResult ==
    \A t \in Threads :
        pc[t] = "done" /\ tOp[t] = "parse_address" =>
            tRes[t] = parse_address(
                        parse_address_with_options(
                          tAddr[t], libpostal_parse_address[tAddr[t]]).res)

\* one caller has its result while another, with another address, is still
\* in its own call, past the native routine
C3_Witness ==
    \E t, u \in Threads :
        /\ tOp[t] = "parse_address" /\ tOp[u] = "parse_address"
        /\ ~Blank(tAddr[t]) /\ ~Blank(tAddr[u]) /\ tAddr[t] # tAddr[u]
        /\ pc[t] = "done" /\ tRes[t].ok
        /\ pc[u] = "reacquire" /\ tLocal[u] # tLocal[t]

---------------------------------------------------------------------------
\* C4: normalize gives house_number, road, "Unit "+unit, city, STATE,
\* postcode, COUNTRY, in that order, each exactly when its key is in the
\* parse result, joined with ", "; no other key contributes.
NormalizeOrder ==
    << COMPONENT_HOUSE_NUMBER, COMPONENT_ROAD, COMPONENT_UNIT, COMPONENT_CITY,
       COMPONENT_STATE, COMPONENT_POSTCODE, COMPONENT_COUNTRY >>

CasePairs == { << LowerCase[k], UpperCase[k] >> : k \in 1..Len(LowerCase) }

UpperCased(s) ==
    [i \in 1..Len(s) |->
        IF \E p \in CasePairs : p[1] = s[i]
        THEN (CHOOSE p \in CasePairs : p[1] = s[i])[2]
        ELSE s[i]]

Rendered(k, v) ==
    CASE k = COMPONENT_UNIT -> << "U", "n", "i", "t", " " >> \o v
      [] k \in { COMPONENT_STATE, COMPONENT_COUNTRY } -> UpperCased(v)
      [] OTHER -> v

ExpectedNormalized(m) ==
    LET present == SelectSeq(NormalizeOrder, LAMBDA k : k \in DOMAIN m)
    IN  concat([i \in 1..Len(present) |->
                  (IF i = 1 THEN << >> ELSE << ",", " " >>)
                    \o Rendered(present[i], m[present[i]])])

C4_NormalizeOrder ==
    (/\ op = "normalize_address"
     /\ ~Blank(address)
     /\ natParse.ok
     /\ DOMAIN natParse.val \cap { NormalizeOrder[i] : i \in 1..7 } # { })
        => result = Ok(ExpectedNormalized(natParse.val))

\* {house_number: "123", road: "main st"} gives "123, main st"
C4_Witness ==
    /\ op = "normalize_address"
    /\ natParse = Ok(ExampleParse)
    /\ result = Ok(<< "1", "2", "3", ",", " ", "m", "a", "i", "n", " ", "s", "t" >>)

\* a unit is prefixed and a state upper-cased, the unit first
C4_UnitAndStateReached ==
    /\ op = "normalize_address"
    /\ natParse.ok
    /\ DOMAIN natParse.val = { COMPONENT_STATE, COMPONENT_UNIT }
    /\ result = Ok(<< "U", "n", "i", "t", " ", "a", "\"", "\\", ",", " ",
                      "A", "\"", "\\" >>)

---------------------------------------------------------------------------
\* C5: no part of the string normalize returns is empty: the string is not
\* empty, does not start or end with ", " and does not hold ", , ".
HasEmptyPart(s) ==
    \/ s = << >>
    \/ Len(s) >= 2 /\ SubSeq(s, 1, 2) = << ",", " " >>
    \/ Len(s) >= 2 /\ SubSeq(s, Len(s) - 1, Len(s)) = << ",", " " >>
    \/ \E i \in 1..Len(s) - 3 : SubSeq(s, i, i + 3) = << ",", " ", ",", " " >>

C5_NoEmptyPart ==
    op = "normalize_address" /\ result.ok => ~HasEmptyPart(result.val)

---------------------------------------------------------------------------
\* C6: normalize of a non-blank address whose parse has none of the seven
\* keys fails with LibpostalError, a runtime error, not with InvalidInput;
\* normalize fails with InvalidInput only on a blank address, before any
\* parse.
C6_NoComponentsIsLibpostalError ==
    op = "normalize_address" =>
        /\ (/\ ~Blank(address)
            /\ natParse.ok
            /\ DOMAIN natParse.val \cap { NormalizeOrder[i] : i \in 1..7 } = { })
              => /\ RaisedLibpostalError(result)
                 /\ ~RaisedInvalidInput(result)
                 /\ result.err.type # "ValueError"
        /\ (~result.ok /\ (result.err.type = "ValueError"
                             \/ result.err.text[1] = "Invalid input: "))
              => Blank(address) /\ native = << >>

\* the parse holds a label, though none that normalize uses
C6_Witness ==
    /\ op = "normalize_address"
    /\ natParse.ok
    /\ DOMAIN natParse.val = { NATIVE_LABEL_HOUSE }
    /\ ~Blank(address)
    /\ RaisedLibpostalError(result)

---------------------------------------------------------------------------
---------------------------------------------------------------------------
\* C8: the JSON text of parse_to_json decodes to the mapping parse returns,
\* that of expand_to_json to the sequence expand returns, element by
\* element; where the base operation fails the to-JSON variant fails alike.
JsonFail == [ok |-> FALSE, val |-> << >>, next |-> 0]

JsonUnescape(c) ==
    CASE c = "t" -> "\t"
      [] c = "n" -> "\n"
      [] c = "r" -> "\r"
      [] OTHER -> c

\* the characters of a JSON string, read from position i up to its closing
\* quote
RECURSIVE JsonChars(_, _, _)
JsonChars(t, i, acc) ==
    IF i > Len(t) THEN JsonFail
    ELSE IF t[i] = "\"" THEN [ok |-> TRUE, val |-> acc, next |-> i + 1]
    ELSE IF t[i] = "\\"
         THEN IF i + 1 > Len(t) \/ t[i + 1] \notin { "\"", "\\", "t", "n", "r" }
              THEN JsonFail
              ELSE JsonChars(t, i + 2, Append(acc, JsonUnescape(t[i + 1])))
    ELSE JsonChars(t, i + 1, Append(acc, t[i]))

JsonString(t, i) ==
    IF i > Len(t) \/ t[i] # "\"" THEN JsonFail ELSE JsonChars(t, i + 1, << >>)

RECURSIVE JsonEntries(_, _, _)
JsonEntries(t, i, acc) ==
    LET k == JsonString(t, i)
        v == JsonString(t, k.next + 1)
    IN  IF ~k.ok \/ k.next > Len(t) \/ t[k.next] # ":" THEN JsonFail
        ELSE IF ~v.ok \/ v.next > Len(t) THEN JsonFail
        ELSE IF t[v.next] = ","
             THEN JsonEntries(t, v.next + 1, (k.val :> v.val) @@ acc)
        ELSE IF t[v.next] = "}" /\ v.next = Len(t)
             THEN [ok |-> TRUE, val |-> (k.val :> v.val) @@ acc, next |-> v.next + 1]
        ELSE JsonFail

JsonDecodeObject(t) ==
    IF Len(t) < 2 \/ t[1] # "{" THEN JsonFail
    ELSE IF t = << "{", "}" >> THEN [ok |-> TRUE, val |-> << >>, next |-> 3]
    ELSE JsonEntries(t, 2, << >>)

RECURSIVE JsonItems(_, _, _)
JsonItems(t, i, acc) ==
    LET v == JsonString(t, i)
    IN  IF ~v.ok \/ v.next > Len(t) THEN JsonFail
        ELSE IF t[v.next] = "," THEN JsonItems(t, v.next + 1, Append(acc, v.val))
        ELSE IF t[v.next] = "]" /\ v.next = Len(t)
             THEN [ok |-> TRUE, val |-> Append(acc, v.val), next |-> v.next + 1]
        ELSE JsonFail

JsonDecodeArray(t) ==
    IF Len(t) < 2 \/ t[1] # "[" THEN JsonFail
    ELSE IF t = << "[", "]" >> THEN [ok |-> TRUE, val |-> << >>, next |-> 3]
    ELSE JsonItems(t, 2, << >>)

SameMapping(f, g) ==
    /\ DOMAIN f = DOMAIN g
    /\ \A k \in DOMAIN f : f[k] = g[k]

SameSequence(s, u) ==
    /\ Len(s) = Len(u)
    /\ \A i \in 1..Len(s) : s[i] = u[i]

C8_JsonRoundTrip ==
    /\ op = "parse_address_to_json" =>
          LET base == parse_address(parse_address_with_options(address, natParse).res)
          IN  IF base.ok
              THEN /\ result.ok
                   /\ JsonDecodeObject(result.val).ok
                   /\ SameMapping(JsonDecodeObject(result.val).val, base.val)
              ELSE ~result.ok /\ result.err = base.err
    /\ op = "expand_address_to_json" =>
          LET base == expand_address(expand_address_string(address, natExpand).res)
          IN  IF base.ok
              THEN /\ result.ok
                   /\ JsonDecodeArray(result.val).ok
                   /\ SameSequence(JsonDecodeArray(result.val).val, base.val)
              ELSE ~result.ok /\ result.err = base.err

\* two expansions, not in sorted order, one with a character JSON escapes
C8_Witness ==
    /\ op = "expand_address_to_json"
    /\ natExpand = Ok(<< << "a" >>, << "\"", "b" >> >>)
    /\ result = Ok(<< "[", "\"", "a", "\"", ",", "\"", "\\", "\"", "b", "\"", "]" >>)

---------------------------------------------------------------------------
\* C9: download_data returns a success/failure boolean, True when the
\* download succeeded and False otherwise.
C9_ReturnsSuccessBoolean ==
    op = "download_data" =>
        /\ result.ok
        /\ result.val = (proc.launched /\ proc.success)

\* The rest of C9: a failed launch and a non-zero exit are raised as
\* ConfigurationError with the captured output and a hint, True is returned
\* exactly after a zero exit, and the caller's force flag is the one passed.
C9_FailureRaisesConfigurationError ==
    op = "download_data" =>
        /\ cmd = download_command(force)
        /\ cmd[2][2] = (IF force THEN "True" ELSE "False")
        /\ (result.ok <=> proc.launched /\ proc.success)
        /\ result.ok => result.val = TRUE
        /\ ~proc.launched =>
              /\ RaisedConfigurationError(result)
              /\ Mentions(result.err.text, proc.error)
              /\ Mentions(result.err.text, ". Ensure Python is installed and the data_manager.py script is accessible")
        /\ proc.launched /\ ~proc.success =>
              /\ RaisedConfigurationError(result)
              /\ Mentions(result.err.text, proc.stderr)
              /\ Mentions(result.err.text, ". Please check your internet connection and ensure you have write permissions to /usr/local/share/libpostal")

---------------------------------------------------------------------------
\* C10: every key of the mapping parse returns is a canonical component
\* type.
C10_KeysCanonical ==
    op = "parse_address" /\ result.ok =>
        \A k \in DOMAIN result.val : is_valid_component_type(k)

====
